---- MODULE Spec2Model ----
(***************************************************************************)
(* Model of package httputil (src/httputil/httputil.go): one call of one  *)
(* exported operation, executed statement group by statement group, with  *)
(* the HTTP server, the transport and the filesystem as the environment.  *)
(***************************************************************************)
EXTENDS Integers, Sequences, FiniteSets, TLC

VARIABLES
    pc,         \* position of the call
    call,       \* the arguments of the call and the fixed facts of its environment
    bys,        \* PostJSON/PostXML: the marshalled request body
    req,        \* the request built by http.NewRequest
    sends,      \* number of requests handed to c.Do
    res,        \* the response c.Do returned
    body,       \* Request: the bytes ioutil.ReadAll returned
    code,       \* Request: named result code
    header,     \* Request: named result header
    err,        \* the err variable of the running function
    defers,     \* deferred calls registered in the running frame
    bodyCloses, \* number of res.Body.Close() calls executed
    out,        \* the caller's output variable (what the caller's pointer points to)
    localV,     \* the interface parameter of a package-level function
    fs,         \* the filesystem: path -> content
    fileOpens,  \* number of successful os.OpenFile calls
    fileCloses, \* number of f.Close() calls executed
    buf,        \* Download: bytes held by the bufio.Writer
    l,          \* Download: the count io.Copy returned
    ret         \* what the operation returned to its caller

vars == <<pc, call, bys, req, sends, res, body, code, header, err, defers,
          bodyCloses, out, localV, fs, fileOpens, fileCloses, buf, l, ret>>

----------------------------------------------------------------------------
(* Bounds of the model *)

MaxBody == 4        \* longest response body
MaxHdrVals == 2     \* most values the transport lists under one header name
BufSize == 2        \* capacity of the bufio.Writer (scaled down)
MaxKind == 4        \* largest output kind a caller passes (kinds above 3 are unsupported)

(* Program constants *)

ReturnBytes == 0
ReturnString == 1
ReturnJSON == 2
ReturnXML == 3
StatusOK == 200

----------------------------------------------------------------------------
(* Values *)

Min(a, b) == IF a < b THEN a ELSE b

Err(k) == [kind |-> k, code |-> 0]
Nil == Err("nil")
\* fmt.Errorf("http response code; %v", code)
StatusErr(c) == [kind |-> "status", code |-> c]

NilMap == [k \in {} |-> ""]
NoRes == [status |-> 0, hdr |-> NilMap, body |-> <<>>, readFail |-> FALSE, none |-> TRUE]
NoReq == [method |-> "", ctype |-> "", body |-> ""]
NoRet == [code |-> -1, header |-> NilMap, n |-> -1, err |-> Err("pending")]
NoFile == [exists |-> FALSE, data |-> <<>>]
File(d) == [exists |-> TRUE, data |-> d]

Unset == [t |-> "unset", v |-> <<>>]
HoldsPtr == [t |-> "ptr", v |-> <<>>]

\* Response bodies: the prefixes of a JSON document and of an XML document.
Docs == { <<"[", "1", "]">>, <<"<", "a", "/", ">">> }
Bodies == { SubSeq(d, 1, Min(k, Len(d))) : d \in Docs, k \in 0..MaxBody }

Statuses == {StatusOK, 404}
\* The kinds a caller may pass: the four defined ones and unsupported ones.
ReturnTypes == 0..MaxKind

\* Header names as character sequences; "a" is not in canonical form.
Names == { <<"A">>, <<"a">> }
Values == {"x", "y"}
ValSeqs == UNION { [1..n -> Values] : n \in 0..MaxHdrVals }
HeaderMaps == UNION { [D -> ValSeqs] : D \in SUBSET Names }

RequestOps == {"Request", "Get", "GetWithHeader", "PostForm", "PostJSON",
               "PostXML", "PostWithHeader"}
Wrappers == RequestOps \ {"Request"}
Ops == RequestOps \cup {"Download"}
Paths == {"new", "old", "bad"}

----------------------------------------------------------------------------
(* Decoding *)

\* json.Unmarshal on the model's documents: "[1]" and "[]"-shaped input is
\* well formed, everything else is a syntax error found before any store.
jsonUnmarshal(raw) ==
    IF Len(raw) >= 2 /\ raw[1] = "[" /\ raw[Len(raw)] = "]"
       /\ \A i \in 2..(Len(raw) - 1) : raw[i] = "1"
    THEN [err |-> Nil, val |-> [t |-> "json", v |-> SubSeq(raw, 2, Len(raw) - 1)]]
    ELSE [err |-> Err("json"), val |-> Unset]

\* xml.Unmarshal on the model's documents: "<name/>" is well formed.
xmlUnmarshal(raw) ==
    IF Len(raw) >= 4 /\ raw[1] = "<" /\ raw[Len(raw) - 1] = "/" /\ raw[Len(raw)] = ">"
       /\ \A i \in 2..(Len(raw) - 2) : raw[i] = "a"
    THEN [err |-> Nil, val |-> [t |-> "xml", v |-> SubSeq(raw, 2, Len(raw) - 2)]]
    ELSE [err |-> Err("xml"), val |-> Unset]

\* formatValue with its default case treating an unknown kind as ReturnBytes.
formatValue_DefaultBytes(returnType, raw) ==
    CASE returnType = ReturnString ->
           [err |-> Nil, store |-> TRUE, how |-> "reflect", val |-> [t |-> "string", v |-> raw]]
      [] returnType = ReturnJSON ->
           LET r == jsonUnmarshal(raw) IN
           [err |-> r.err, store |-> r.err = Nil, how |-> "unmarshal", val |-> r.val]
      [] returnType = ReturnXML ->
           LET r == xmlUnmarshal(raw) IN
           [err |-> r.err, store |-> r.err = Nil, how |-> "unmarshal", val |-> r.val]
      [] OTHER ->
           [err |-> Nil, store |-> TRUE, how |-> "reflect", val |-> [t |-> "bytes", v |-> raw]]

\* formatValue: the error it returns, whether it stores, the value stored and
\* how the store is made ("reflect": Elem().Set on the pointer passed;
\* "unmarshal": the decoder follows the pointer, through an interface too).
formatValue(returnType, raw) ==
    CASE returnType = ReturnBytes ->
           [err |-> Nil, store |-> TRUE, how |-> "reflect", val |-> [t |-> "bytes", v |-> raw]]
      [] returnType = ReturnString ->
           [err |-> Nil, store |-> TRUE, how |-> "reflect", val |-> [t |-> "string", v |-> raw]]
      [] returnType = ReturnJSON ->
           LET r == jsonUnmarshal(raw) IN
           [err |-> r.err, store |-> r.err = Nil, how |-> "unmarshal", val |-> r.val]
      [] returnType = ReturnXML ->
           LET r == xmlUnmarshal(raw) IN
           [err |-> r.err, store |-> r.err = Nil, how |-> "unmarshal", val |-> r.val]
      [] OTHER ->
           [err |-> Err("unknown return type"), store |-> FALSE, how |-> "none", val |-> Unset]

\* Which package-level functions pass &v (a pointer to their own interface
\* parameter) instead of the caller's pointer.
PassesAddressOfParam(op) ==
    op \in {"Get", "GetWithHeader", "PostForm", "PostJSON", "PostXML"}

\* The pair <<caller's variable, interface parameter>> after formatValue's store.
Store(wrapped, f, o, v) ==
    IF ~f.store THEN <<o, v>>
    ELSE IF wrapped /\ f.how = "reflect" THEN <<o, f.val>>
    ELSE <<f.val, v>>

----------------------------------------------------------------------------
(* Headers *)

Upper(ch) == IF ch = "a" THEN "A" ELSE ch
Lower(ch) == IF ch = "A" THEN "a" ELSE ch

\* textproto.CanonicalMIMEHeaderKey, as http.Header.Get applies it.
Canonical(k) ==
    [i \in DOMAIN k |-> IF i = 1 \/ k[i - 1] = "-" THEN Upper(k[i]) ELSE Lower(k[i])]

\* Header.Get returning the last value instead of the first.
HeaderGet_Last(h, k) ==
    LET c == Canonical(k) IN
    IF c \in DOMAIN h /\ Len(h[c]) > 0 THEN h[c][Len(h[c])] ELSE ""

\* http.Header.Get: the first value under the canonical key, "" if none.
HeaderGet(h, k) ==
    LET c == Canonical(k) IN
    IF c \in DOMAIN h /\ Len(h[c]) > 0 THEN h[c][1] ELSE ""

\* header[k] = res.Header.Get(k) for every k of res.Header
CopyHeader(h) == [k \in DOMAIN h |-> HeaderGet(h, k)]

----------------------------------------------------------------------------
(* Deferred calls *)

Count(s, x) == Cardinality({i \in DOMAIN s : s[i] = x})

\* A return of the running frame: its deferred calls run.
RunDefers ==
    /\ bodyCloses' = bodyCloses + Count(defers, "res.Body.Close")
    /\ fileCloses' = fileCloses + Count(defers, "f.Close")
    /\ defers' = <<>>

----------------------------------------------------------------------------
\* The filesystem before the call: one file exists.
InitFs == [p \in Paths |-> IF p = "old" THEN File(<<"o", "o", "o">>) ELSE NoFile]

Init ==
    /\ pc = "idle"
    /\ call = [op |-> "", pkg |-> FALSE, returnType |-> 0, bodyOK |-> TRUE,
               urlOK |-> TRUE, savePath |-> "new", diskOK |-> TRUE,
               readerFrom |-> FALSE]
    /\ bys = "none"
    /\ req = NoReq
    /\ sends = 0
    /\ res = NoRes
    /\ body = <<>>
    /\ code = 0
    /\ header = NilMap
    /\ err = Nil
    /\ defers = <<>>
    /\ bodyCloses = 0
    /\ out = Unset
    /\ localV = HoldsPtr
    /\ fs = InitFs
    /\ fileOpens = 0
    /\ fileCloses = 0
    /\ buf = <<>>
    /\ l = 0
    /\ ret = NoRet

\* A caller invokes one operation, as a method of a Client or as the
\* package-level function of the same name.
Call ==
    /\ pc = "idle"
    /\ \E op \in Ops, pkg \in BOOLEAN, rt \in ReturnTypes, bodyOK \in BOOLEAN,
          urlOK \in BOOLEAN, p \in Paths, diskOK \in BOOLEAN, rf \in BOOLEAN :
          /\ op \notin {"PostJSON", "PostXML"} => bodyOK
          /\ op = "Download" => rt = 0
          /\ op # "Download" => (p = "new" /\ diskOK /\ ~rf)
          /\ call' = [op |-> op, pkg |-> pkg, returnType |-> rt, bodyOK |-> bodyOK,
                      urlOK |-> urlOK, savePath |-> p, diskOK |-> diskOK,
                      readerFrom |-> rf]
          /\ pc' = CASE op \in {"PostJSON", "PostXML"} -> "encode"
                     [] op = "PostForm" -> "form"
                     [] op = "Download" -> "dl_build"
                     [] OTHER -> "build"
    /\ UNCHANGED <<bys, req, sends, res, body, code, header, err, defers,
                   bodyCloses, out, localV, fs, fileOpens, fileCloses, buf, l, ret>>

\* PostForm: url2.Values built from the form and encoded; cannot fail.
EncodeForm ==
    /\ pc = "form"
    /\ bys' = "form"
    /\ pc' = "build"
    /\ UNCHANGED <<call, req, sends, res, body, code, header, err, defers,
                   bodyCloses, out, localV, fs, fileOpens, fileCloses, buf, l, ret>>

\* Encode with the marshal error dropped: the request goes out regardless.
Encode_IgnoreErr ==
    /\ pc = "encode"
    /\ bys' = (IF call.op = "PostJSON" THEN "json" ELSE "xml")
    /\ pc' = "build"
    /\ UNCHANGED <<call, req, sends, res, body, code, header, err, defers,
                   bodyCloses, out, localV, fs, fileOpens, fileCloses, buf, l, ret>>

\* PostJSON / PostXML: json.Marshal / xml.Marshal of the body value; on error
\* the function returns it.
Encode ==
    /\ pc = "encode"
    /\ IF call.bodyOK
       THEN /\ bys' = (IF call.op = "PostJSON" THEN "json" ELSE "xml")
            /\ pc' = "build"
            /\ UNCHANGED <<err, ret>>
       ELSE /\ err' = Err("encode")
            /\ ret' = [NoRet EXCEPT !.err = Err("encode")]
            /\ pc' = "done"
            /\ UNCHANGED bys
    /\ UNCHANGED <<call, req, sends, res, body, code, header, defers,
                   bodyCloses, out, localV, fs, fileOpens, fileCloses, buf, l>>

\* The Content-Type the operation puts in the header map it passes on.
ContentType(op) ==
    CASE op = "PostForm" -> "application/x-www-form-urlencoded"
      [] op = "PostJSON" -> "application/json"
      [] op = "PostXML" -> "application/xml"
      [] op \in {"GetWithHeader", "PostWithHeader", "Request"} -> "caller"
      [] OTHER -> ""

Method(op) == IF op \in {"Get", "GetWithHeader", "Download"} THEN "GET"
              ELSE IF op = "Request" THEN "caller" ELSE "POST"

\* Request returns to its caller: the deferred calls run; a wrapper goes on
\* to examine err and code, Request itself is done.
RequestReturns(c, h, e) ==
    /\ code' = c
    /\ header' = h
    /\ err' = e
    /\ RunDefers
    /\ IF call.op = "Request"
       THEN /\ pc' = "done"
            /\ ret' = [NoRet EXCEPT !.code = c, !.header = h, !.err = e]
       ELSE /\ pc' = "check"
            /\ UNCHANGED ret

\* Request: http.NewRequest, then the headers are set on it.
Build ==
    /\ pc = "build"
    /\ IF call.urlOK
       THEN /\ req' = [method |-> Method(call.op), ctype |-> ContentType(call.op),
                       body |-> bys]
            /\ pc' = "send"
            /\ UNCHANGED <<code, header, err, defers, bodyCloses, fileCloses, ret>>
       ELSE /\ RequestReturns(0, NilMap, Err("build"))
            /\ UNCHANGED req
    /\ UNCHANGED <<call, bys, sends, res, body, out, localV, fs, fileOpens, buf, l>>

\* Request: c.Do(req). The transport fails, or the server answers.
Send ==
    /\ pc = "send"
    /\ sends' = sends + 1
    /\ \/ /\ RequestReturns(0, NilMap, Err("transport"))
          /\ UNCHANGED res
       \/ /\ \E s \in Statuses, h \in HeaderMaps, b \in Bodies, rf \in BOOLEAN :
                res' = [status |-> s, hdr |-> h, body |-> b, readFail |-> rf,
                        none |-> FALSE]
          /\ pc' = "headers"
          /\ UNCHANGED <<code, header, err, defers, bodyCloses, fileCloses, ret>>
    /\ UNCHANGED <<call, bys, req, body, out, localV, fs, fileOpens, buf, l>>

\* Request: the response headers are copied into the result map.
Headers ==
    /\ pc = "headers"
    /\ header' = CopyHeader(res.hdr)
    /\ pc' = "read"
    /\ UNCHANGED <<call, bys, req, sends, res, body, code, err, defers,
                   bodyCloses, out, localV, fs, fileOpens, fileCloses, buf, l, ret>>

\* Request: ioutil.ReadAll(res.Body); on error return, else defer the close.
Read ==
    /\ pc = "read"
    /\ IF res.readFail
       THEN /\ RequestReturns(code, header, Err("read"))
            /\ UNCHANGED body
       ELSE /\ body' = res.body
            /\ defers' = Append(defers, "res.Body.Close")
            /\ pc' = "decode"
            /\ UNCHANGED <<code, header, err, bodyCloses, fileCloses, ret>>
    /\ UNCHANGED <<call, bys, req, sends, res, out, localV, fs, fileOpens, buf, l>>

\* Decode with code = res.StatusCode moved before the call of formatValue.
Decode_CodeFirst ==
    /\ pc = "decode"
    /\ LET f == formatValue(call.returnType, body)
           w == call.pkg /\ PassesAddressOfParam(call.op)
           s == Store(w, f, out, localV)
       IN /\ out' = s[1]
          /\ localV' = s[2]
          /\ RequestReturns(res.status, header, f.err)
    /\ UNCHANGED <<call, bys, req, sends, res, body, fs, fileOpens, buf, l>>

\* Request: formatValue, then on success code = res.StatusCode; return.
Decode ==
    /\ pc = "decode"
    /\ LET f == formatValue(call.returnType, body)
           w == call.pkg /\ PassesAddressOfParam(call.op)
           s == Store(w, f, out, localV)
       IN /\ out' = s[1]
          /\ localV' = s[2]
          /\ IF f.err # Nil
             THEN RequestReturns(code, header, f.err)
             ELSE RequestReturns(res.status, header, f.err)
    /\ UNCHANGED <<call, bys, req, sends, res, body, fs, fileOpens, buf, l>>

\* GetWithHeader / PostWithHeader after Request returned: err first, then code.
Check ==
    /\ pc = "check"
    /\ ret' = [NoRet EXCEPT !.err = IF err # Nil THEN err
                                    ELSE IF code # StatusOK THEN StatusErr(code)
                                    ELSE Nil]
    /\ pc' = "done"
    /\ UNCHANGED <<call, bys, req, sends, res, body, code, header, err, defers,
                   bodyCloses, out, localV, fs, fileOpens, fileCloses, buf, l>>

----------------------------------------------------------------------------
(* Download *)

\* Download returns (n, e): the deferred calls run.
DownloadReturns(n, e) ==
    /\ ret' = [NoRet EXCEPT !.n = n, !.err = e]
    /\ err' = e
    /\ RunDefers
    /\ pc' = "done"

DlBuild ==
    /\ pc = "dl_build"
    /\ IF call.urlOK
       THEN /\ req' = [method |-> Method(call.op), ctype |-> "", body |-> "none"]
            /\ pc' = "dl_send"
            /\ UNCHANGED <<err, defers, bodyCloses, fileCloses, ret>>
       ELSE /\ DownloadReturns(0, Err("build"))
            /\ UNCHANGED req
    /\ UNCHANGED <<call, bys, sends, res, body, code, header, out, localV, fs,
                   fileOpens, buf, l>>

DlSend ==
    /\ pc = "dl_send"
    /\ sends' = sends + 1
    /\ \/ /\ DownloadReturns(0, Err("transport"))
          /\ UNCHANGED res
       \/ /\ \E s \in Statuses, b \in Bodies, rf \in BOOLEAN :
                res' = [status |-> s, hdr |-> NilMap, body |-> b, readFail |-> rf,
                        none |-> FALSE]
          /\ pc' = "dl_status"
          /\ UNCHANGED <<err, defers, bodyCloses, fileCloses, ret>>
    /\ UNCHANGED <<call, bys, req, body, code, header, out, localV, fs,
                   fileOpens, buf, l>>

\* DlStatus without the status test: the file is opened whatever the status.
DlStatus_NoTest ==
    /\ pc = "dl_status"
    /\ pc' = "dl_open"
    /\ UNCHANGED <<call, bys, req, sends, res, body, code, header, err, defers,
                   bodyCloses, out, localV, fs, fileOpens, fileCloses, buf, l, ret>>

\* if res.StatusCode != 200 { return 0, error }
DlStatus ==
    /\ pc = "dl_status"
    /\ IF res.status # StatusOK
       THEN DownloadReturns(0, StatusErr(res.status))
       ELSE /\ pc' = "dl_open"
            /\ UNCHANGED <<err, defers, bodyCloses, fileCloses, ret>>
    /\ UNCHANGED <<call, bys, req, sends, res, body, code, header, out, localV,
                   fs, fileOpens, buf, l>>

\* DlOpen without the defer f.Close().
DlOpen_NoDefer ==
    /\ pc = "dl_open"
    /\ IF call.savePath = "bad"
       THEN /\ DownloadReturns(0, Err("open"))
            /\ UNCHANGED <<fs, fileOpens>>
       ELSE /\ fs' = [fs EXCEPT ![call.savePath] = File(<<>>)]
            /\ fileOpens' = fileOpens + 1
            /\ pc' = "dl_copy"
            /\ UNCHANGED <<err, defers, bodyCloses, fileCloses, ret>>
    /\ UNCHANGED <<call, bys, req, sends, res, body, code, header, out, localV, buf, l>>

\* os.OpenFile(savePath, O_CREATE|O_WRONLY|O_TRUNC); on success defer f.Close().
DlOpen ==
    /\ pc = "dl_open"
    /\ IF call.savePath = "bad"
       THEN /\ DownloadReturns(0, Err("open"))
            /\ UNCHANGED <<fs, fileOpens>>
       ELSE /\ fs' = [fs EXCEPT ![call.savePath] = File(<<>>)]
            /\ fileOpens' = fileOpens + 1
            /\ defers' = Append(defers, "f.Close")
            /\ pc' = "dl_copy"
            /\ UNCHANGED <<err, bodyCloses, fileCloses, ret>>
    /\ UNCHANGED <<call, bys, req, sends, res, body, code, header, out, localV, buf, l>>

\* io.Copy(buf, res.Body) through bufio.Writer.ReadFrom: [n, err, file, buf].
\* With a file that is an io.ReaderFrom and an empty buffer the bytes go
\* straight to the file; otherwise every full buffer is flushed to the file
\* and the rest stays in the buffer.
Copy(b, readFail, readerFrom, diskOK) ==
    IF readFail THEN [n |-> 0, err |-> Err("read"), file |-> <<>>, buf |-> <<>>]
    ELSE IF readerFrom
    THEN IF diskOK \/ Len(b) = 0
         THEN [n |-> Len(b), err |-> Nil, file |-> b, buf |-> <<>>]
         ELSE [n |-> 0, err |-> Err("write"), file |-> <<>>, buf |-> <<>>]
    ELSE LET full == BufSize * (Len(b) \div BufSize) IN
         IF full = 0
         THEN [n |-> Len(b), err |-> Nil, file |-> <<>>, buf |-> b]
         ELSE IF diskOK
         THEN [n |-> Len(b), err |-> Nil, file |-> SubSeq(b, 1, full),
               buf |-> SubSeq(b, full + 1, Len(b))]
         ELSE [n |-> BufSize, err |-> Err("write"), file |-> <<>>,
               buf |-> SubSeq(b, 1, BufSize)]

\* l, err := io.Copy(buf, res.Body); on error return, else defer the close of
\* the response body.
DlCopy ==
    /\ pc = "dl_copy"
    /\ LET c == Copy(res.body, res.readFail, call.readerFrom, call.diskOK) IN
       /\ fs' = [fs EXCEPT ![call.savePath] = File(c.file)]
       /\ buf' = c.buf
       /\ IF c.err # Nil
          THEN /\ DownloadReturns(0, c.err)
               /\ UNCHANGED l
          ELSE /\ l' = c.n
               /\ defers' = Append(defers, "res.Body.Close")
               /\ pc' = "dl_flush"
               /\ UNCHANGED <<err, bodyCloses, fileCloses, ret>>
    /\ UNCHANGED <<call, bys, req, sends, res, body, code, header, out, localV,
                   fileOpens>>

\* buf.Flush() with its result dropped, then return l, err.
DlFlush ==
    /\ pc = "dl_flush"
    /\ IF Len(buf) > 0 /\ call.diskOK
       THEN /\ fs' = [fs EXCEPT ![call.savePath] = File(fs[call.savePath].data \o buf)]
            /\ buf' = <<>>
       ELSE UNCHANGED <<fs, buf>>
    /\ DownloadReturns(l, err)
    /\ UNCHANGED <<call, bys, req, sends, res, body, code, header, out, localV,
                   fileOpens, l>>

----------------------------------------------------------------------------
Next ==
    \/ Call
    \/ EncodeForm
    \/ Encode
    \/ Build
    \/ Send
    \/ Headers
    \/ Read
    \/ Decode
    \/ Check
    \/ DlBuild
    \/ DlSend
    \/ DlStatus
    \/ DlOpen
    \/ DlCopy
    \/ DlFlush

Spec == Init /\ [][Next]_vars

----------------------------------------------------------------------------
(* What a method of Client yields, as a function of the call and of what   *)
(* the environment answers: the caller passes a pointer to its variable.   *)

\* Client.Request: <<code, header, err, caller's variable>>
RequestOutcome(c, r) ==
    IF ~c.urlOK THEN [code |-> 0, header |-> NilMap, err |-> Err("build"), out |-> Unset]
    ELSE IF r.none
    THEN [code |-> 0, header |-> NilMap, err |-> Err("transport"), out |-> Unset]
    ELSE IF r.readFail
    THEN [code |-> 0, header |-> CopyHeader(r.hdr), err |-> Err("read"), out |-> Unset]
    ELSE LET f == formatValue(c.returnType, r.body) IN
         [code |-> IF f.err = Nil THEN r.status ELSE 0,
          header |-> CopyHeader(r.hdr), err |-> f.err,
          out |-> Store(FALSE, f, Unset, HoldsPtr)[1]]

\* Client.Download: <<n, err, file at savePath>>
DownloadOutcome(c, r) ==
    IF ~c.urlOK THEN [n |-> 0, err |-> Err("build"), file |-> InitFs[c.savePath]]
    ELSE IF r.none THEN [n |-> 0, err |-> Err("transport"), file |-> InitFs[c.savePath]]
    ELSE IF r.status # StatusOK
    THEN [n |-> 0, err |-> StatusErr(r.status), file |-> InitFs[c.savePath]]
    ELSE IF c.savePath = "bad"
    THEN [n |-> 0, err |-> Err("open"), file |-> InitFs[c.savePath]]
    ELSE LET k == Copy(r.body, r.readFail, c.readerFrom, c.diskOK) IN
         IF k.err # Nil THEN [n |-> 0, err |-> k.err, file |-> File(k.file)]
         ELSE [n |-> k.n, err |-> Nil,
               file |-> File(IF c.diskOK THEN k.file \o k.buf ELSE k.file)]

\* The method named c.op: what it returns, the caller's variable and the file.
MethodOutcome(c, r) ==
    IF c.op = "Download"
    THEN LET d == DownloadOutcome(c, r) IN
         [ret |-> [NoRet EXCEPT !.n = d.n, !.err = d.err], out |-> Unset,
          file |-> d.file]
    ELSE IF c.op \in {"PostJSON", "PostXML"} /\ ~c.bodyOK
    THEN [ret |-> [NoRet EXCEPT !.err = Err("encode")], out |-> Unset,
          file |-> InitFs[c.savePath]]
    ELSE LET q == RequestOutcome(c, r) IN
         IF c.op = "Request"
         THEN [ret |-> [NoRet EXCEPT !.code = q.code, !.header = q.header,
                                     !.err = q.err],
               out |-> q.out, file |-> InitFs[c.savePath]]
         ELSE [ret |-> [NoRet EXCEPT !.err = IF q.err # Nil THEN q.err
                                             ELSE IF q.code # StatusOK
                                             THEN StatusErr(q.code) ELSE Nil],
               out |-> q.out, file |-> InitFs[c.savePath]]

\* The step-by-step model of a method call ends where MethodOutcome says.
MethodStepsAgree ==
    (pc = "done" /\ ~call.pkg) =>
        LET m == MethodOutcome(call, res) IN
        /\ ret = m.ret
        /\ out = m.out
        /\ fs[call.savePath] = m.file

----------------------------------------------------------------------------
(* Claims *)

Returned == pc = "done"
\* Request has sent, read the body and formatValue failed on it.
DecodeFailed ==
    /\ call.op \in RequestOps
    /\ pc \in {"check", "done"}
    /\ ~res.none
    /\ ~res.readFail
    /\ formatValue(call.returnType, res.body).err # Nil

\* C1 (as stated): a wrapper whose send succeeded with a status other than
\* 200 returns the non-OK-status error carrying that status, whatever the
\* body that was read and whatever the output kind, whether or not the body
\* decodes.
C1_NonOKStatusWhateverBody ==
    (Returned /\ call.op \in Wrappers /\ ~res.none /\ ~res.readFail
        /\ res.status # StatusOK)
        => ret.err = StatusErr(res.status)

\* C2 (as stated): when decoding fails, Request returns the decode error with
\* the status code the transport reported and the captured header map.
C2_DecodeErrorWithRealStatus ==
    DecodeFailed =>
        /\ err = formatValue(call.returnType, res.body).err
        /\ code = res.status
        /\ header = CopyHeader(res.hdr)

\* C2 (amended): when decoding fails, Request returns the decode error with
\* code 0 (code is assigned only after formatValue succeeded) and the
\* captured header map.
C2_DecodeErrorWithZeroCode ==
    /\ DecodeFailed =>
        /\ err.kind \in {"json", "xml", "unknown return type"}
        /\ code = 0
        /\ DOMAIN header = DOMAIN res.hdr
    /\ (DecodeFailed /\ Returned /\ call.op = "Request") =>
        /\ ret.err = err
        /\ ret.code = 0
        /\ ret.header = header

C2_Witness ==
    /\ Returned
    /\ call.op = "Request"
    /\ call.returnType = ReturnJSON
    /\ res.status = 404
    /\ res.body = <<"[", "1">>
    /\ ~res.readFail
    /\ ret.err = Err("json")
    /\ ret.code = 0
    /\ DOMAIN ret.header = Names

\* C3 (as stated): once a response exists its body stream is closed exactly
\* once by the time Request or Download returns.
C3_BodyClosedExactlyOnce ==
    (Returned /\ ~res.none) => bodyCloses = 1

\* C4: an opened destination file is closed exactly once when Download
\* returns, and not before; when it was never opened no handle is held.
C4_FileHandleReleased ==
    /\ fileOpens \in {0, 1}
    /\ pc \in {"dl_copy", "dl_flush"} => (fileOpens = 1 /\ fileCloses = 0)
    /\ Returned => fileCloses = fileOpens
    /\ (Returned /\ call.op = "Download") =>
          (fileOpens = 1 <=> (call.urlOK /\ ~res.none /\ res.status = StatusOK
                              /\ call.savePath # "bad"))

C4_Witness ==
    /\ Returned
    /\ call.op = "Download"
    /\ ret.err = Err("write")
    /\ fileOpens = 1
    /\ fileCloses = 1

\* C5 (as stated): a package-level function returns what the method of the
\* same name returns and leaves the caller's output variable (and the
\* file) as the method does.
C5_PackageFunctionSameAsMethod ==
    (Returned /\ call.pkg) =>
        LET m == MethodOutcome(call, res) IN
        /\ ret = m.ret
        /\ out = m.out
        /\ fs[call.savePath] = m.file

\* C6 (as stated): when Download returns (n, nil), all n bytes of the
\* response body are in the file.
C6_NilErrorMeansWritten ==
    (Returned /\ call.op = "Download" /\ ret.err = Nil) =>
        /\ ret.n = Len(res.body)
        /\ fs[call.savePath] = File(res.body)

\* C7: on a status other than 200 Download returns (0, non-OK-status error)
\* and the filesystem is as it was: nothing created, truncated or written.
C7_NonOKDownloadLeavesFs ==
    (call.op = "Download" /\ ~res.none /\ res.status # StatusOK) =>
        /\ fs = InitFs
        /\ fileOpens = 0
        /\ Returned => (ret.n = 0 /\ ret.err = StatusErr(res.status))

C7_Witness ==
    /\ Returned
    /\ call.op = "Download"
    /\ res.status = 404
    /\ call.savePath = "old"
    /\ Len(res.body) > 0
    /\ fs["old"] = File(<<"o", "o", "o">>)
    /\ ret.err = StatusErr(404)

\* C8: with an output kind outside the four defined ones decoding returns an
\* error and the caller's output variable is unchanged, whatever the bytes;
\* Request returns that error as it is.
C8_UnsupportedKindFails ==
    (call.op \in RequestOps /\ call.returnType \notin
        {ReturnBytes, ReturnString, ReturnJSON, ReturnXML}) =>
        /\ out = Unset
        /\ localV = HoldsPtr
        /\ (pc \in {"check", "done"} /\ ~res.none /\ ~res.readFail) =>
              (err = Err("unknown return type") /\ code = 0)
        /\ (Returned /\ ~res.none /\ ~res.readFail) =>
              ret.err = Err("unknown return type")

C8_Witness ==
    /\ Returned
    /\ call.op = "Request"
    /\ call.returnType = 4
    /\ res.body = <<"[", "1", "]">>
    /\ res.status = StatusOK
    /\ ~res.readFail
    /\ ret.err = Err("unknown return type")
    /\ out = Unset

\* C9: when the body value of PostJSON or PostXML cannot be marshalled the
\* call returns the encode error, nothing is ever sent and the output variable
\* is never written; and a request is sent only after the body was encoded.
C9_EncodeErrorSendsNothing ==
    call.op \in {"PostJSON", "PostXML"} =>
        /\ ~call.bodyOK =>
              /\ sends = 0
              /\ res.none
              /\ out = Unset
              /\ localV = HoldsPtr
              /\ pc \in {"encode", "done"}
              /\ Returned => ret.err = Err("encode")
        /\ sends > 0 => bys = (IF call.op = "PostJSON" THEN "json" ELSE "xml")

C9_Witness ==
    /\ Returned
    /\ call.op = "PostJSON"
    /\ ~call.bodyOK
    /\ ret.err = Err("encode")
    /\ sends = 0

HeadersCopied ==
    call.op \in RequestOps /\ ~res.none /\ pc \in {"read", "decode", "check", "done"}

\* C10 (as stated): the returned header map has exactly the names of the
\* response, one value each, and of several values the transport lists
\* under a name (in canonical form, as the standard transport reports it)
\* the last one is kept.
C10_LastValueWins ==
    HeadersCopied =>
        /\ DOMAIN header = DOMAIN res.hdr
        /\ \A k \in DOMAIN res.hdr :
              (Canonical(k) = k /\ Len(res.hdr[k]) > 1)
                  => header[k] = res.hdr[k][Len(res.hdr[k])]

\* C10 (amended): the returned header map has exactly the names of the
\* response, one value each: the first of the values the response lists
\* under the canonical form of the name, or the empty string if it lists
\* none; so for a name in canonical form the first of its values is kept.
C10_FirstValueWins ==
    HeadersCopied =>
        /\ DOMAIN header = DOMAIN res.hdr
        /\ \A k \in DOMAIN res.hdr :
              LET c == IF k = <<"a">> THEN <<"A">> ELSE k IN
              header[k] = IF c \in DOMAIN res.hdr /\ res.hdr[c] # <<>>
                          THEN Head(res.hdr[c]) ELSE ""
        /\ (Returned /\ call.op = "Request") => ret.header = header

C10_Witness ==
    /\ Returned
    /\ call.op = "Request"
    /\ DOMAIN res.hdr = Names
    /\ res.hdr[<<"A">>] = <<"x", "y">>
    /\ res.hdr[<<"a">>] = <<"y">>
    /\ ret.header[<<"A">>] = "x"
    /\ ret.header[<<"a">>] = "x"

====
